---- MODULE Spec2Model ----
(***************************************************************************)
(* Model of the chat-completion proxies of openai-nim-proxy.               *)
(*                                                                         *)
(* Three deployments of POST /v1/chat/completions are modelled:            *)
(*   "NIM"  src/server.js lines 152-355 (streaming proxy to NVIDIA NIM)    *)
(*   "HF"   src/server.js lines 1-150   (buffered proxy to Hugging Face)   *)
(*   "HFA"  src/unnamed/part_000        (buffered proxy, abliterated model)*)
(*                                                                         *)
(* Byte strings are sequences of tokens; every token stands for a fixed    *)
(* run of bytes, and the transport may cut a byte string between any two   *)
(* tokens.  A JSON text is two tokens: its first bytes (JHEAD) and the     *)
(* rest (a "tail"), so that a JSON text can be cut in the middle.          *)
(***************************************************************************)
EXTENDS Integers, Sequences, FiniteSets, TLC

(***************************************************************************)
(* Bounds of the model.                                                    *)
(***************************************************************************)
\* the largest number of event frames an upstream stream body holds
MaxFrames == 2

(***************************************************************************)
(* JavaScript values.                                                      *)
(***************************************************************************)
JsUndefined == [t |-> "undefined"]
JsNull == [t |-> "null"]
JsStr(s) == [t |-> "string", v |-> s]
JsNum(n) == [t |-> "number", v |-> n]
JsObject == [t |-> "object"]
JsArray(n) == [t |-> "array", v |-> n]

\* JavaScript truthiness (the values the model uses)
Truthy(x) ==
  CASE x.t = "undefined" -> FALSE
    [] x.t = "null" -> FALSE
    [] x.t = "string" -> x.v # ""
    [] x.t = "number" -> x.v # 0
    [] OTHER -> TRUE

(***************************************************************************)
(* Tokens of the byte strings.                                             *)
(***************************************************************************)
PREFIX == "data: "
DELIM == "<LF><LF>"
JHEAD == "{"
DONE1 == "[DO"
DONE2 == "NE]"
NOTJSON == "not json"

\* rest of {"choices":[{"delta":{"content":"He"}}]}
T_HE == "delta:content=He}"
\* rest of {"choices":[{"delta":{"reasoning_content":"th"}}]}
T_REASON == "delta:reasoning_content=th}"
\* rest of {"choices":[{"delta":{},"finish_reason":"stop"}]}
T_FINISH == "delta:,finish_reason=stop}"
\* rest of {"id":"1"}
T_NOCHOICES == "id=1}"
\* rest of {"choices":[{"delta":{"content":"[DONE]"}}]}
T_DONETEXT == "delta:content=[DONE]}"
\* rest of {"choices":[{"delta":{"content":""}}]}
T_EMPTY == "delta:content=}"
\* rest of {"choices":[{"delta":{"content":""},"finish_reason":"stop"}]}
T_FINISHC == "delta:content=,finish_reason=stop}"
\* rest of {"choices":[{"delta":{"reasoning_content":"th",
\*          "content":"<think>\nth\n</think>\n\n"}}]}
T_THINK == "delta:reasoning_content=th,content=<think>th</think>}"
\* rest of {"choices":[{"delta":{"reasoning_content":"th","content":"th"}}]}
T_SHOWN == "delta:reasoning_content=th,content=th}"
\* rest of {"error":"Stream failed"}
T_ERROR == "error=Stream failed}"

\* rest of {"choices":[{"index":0,"message":{"role":"assistant","content":"Hello"},"finish_reason":"stop"}]}
T_MSG == "message:content=Hello}"
\* rest of {"choices":[{"index":0,"message":{"role":"assistant","content":null,
\*          "reasoning_content":"th"}},{"index":1,"message":{"role":"assistant","content":"B"}}]}
T_MSG2 == "message:content=null,reasoning_content=th;message:content=B}"

Choice(kind, content, reasoning, finish) ==
  [kind |-> kind, content |-> content, reasoning |-> reasoning, finish |-> finish]

Delta(content, reasoning, finish) ==
  [hasChoices |-> TRUE, choices |-> <<Choice("delta", content, reasoning, finish)>>]

\* the decoded value of every JSON text of the model, by its tail
TailDoc(tok) ==
  CASE tok = T_HE -> Delta(JsStr("He"), JsUndefined, FALSE)
    [] tok = T_REASON -> Delta(JsUndefined, JsStr("th"), FALSE)
    [] tok = T_FINISH -> Delta(JsUndefined, JsUndefined, TRUE)
    [] tok = T_DONETEXT -> Delta(JsStr("[DONE]"), JsUndefined, FALSE)
    [] tok = T_EMPTY -> Delta(JsStr(""), JsUndefined, FALSE)
    [] tok = T_FINISHC -> Delta(JsStr(""), JsUndefined, TRUE)
    [] tok = T_THINK -> Delta(JsStr("<think>th</think>"), JsStr("th"), FALSE)
    [] tok = T_SHOWN -> Delta(JsStr("th"), JsStr("th"), FALSE)
    [] tok = T_MSG ->
         [hasChoices |-> TRUE,
          choices |-> <<Choice("message", JsStr("Hello"), JsUndefined, TRUE)>>]
    [] tok = T_MSG2 ->
         [hasChoices |-> TRUE,
          choices |-> <<Choice("message", JsNull, JsStr("th"), FALSE),
                        Choice("message", JsStr("B"), JsUndefined, FALSE)>>]
    [] OTHER -> [hasChoices |-> FALSE, choices |-> <<>>]

DeltaTails ==
  {T_HE, T_REASON, T_FINISH, T_DONETEXT, T_EMPTY, T_FINISHC, T_THINK, T_SHOWN}

JsonTails == DeltaTails \cup {T_NOCHOICES, T_ERROR, T_MSG, T_MSG2}

\* the tokens whose bytes hold the characters [DONE]
HoldsDone(tok) == tok = T_DONETEXT

(***************************************************************************)
(* String and JSON operations of the streaming handler.                    *)
(***************************************************************************)
RECURSIVE Flatten(_)
\* the concatenation of a sequence of byte strings
Flatten(ss) == IF ss = <<>> THEN <<>> ELSE Head(ss) \o Flatten(Tail(ss))

\* chunkStr.includes('[DONE]')
Includes(s) ==
  \E i \in 1..Len(s) :
    \/ HoldsDone(s[i])
    \/ i < Len(s) /\ s[i] = DONE1 /\ s[i + 1] = DONE2

RECURSIVE TrimStart(_)
TrimStart(s) ==
  IF s # <<>> /\ Head(s) = DELIM THEN TrimStart(Tail(s)) ELSE s

RECURSIVE TrimEnd(_)
TrimEnd(s) ==
  IF s # <<>> /\ s[Len(s)] = DELIM THEN TrimEnd(SubSeq(s, 1, Len(s) - 1)) ELSE s

\* chunkStr.trim(): white space is dropped at both ends (the PREFIX token ends
\* in a blank, but it never trims to nothing)
Trim(s) == TrimEnd(TrimStart(s))

NoDoc == TailDoc(T_NOCHOICES)

\* JSON.parse(text): white space around the value is skipped; anything that
\* is not one complete JSON text throws a SyntaxError
JSONparse(s) ==
  LET t == Trim(s)
  IN IF Len(t) = 2 /\ t[1] = JHEAD /\ t[2] \in JsonTails
       THEN [ok |-> TRUE, doc |-> TailDoc(t[2])]
       ELSE [ok |-> FALSE, doc |-> NoDoc]

\* JSON.stringify(data) of a decoded chunk
JSONstringify(doc) ==
  <<JHEAD, CHOOSE tok \in DeltaTails : TailDoc(tok) = doc>>

\* 'data: [DONE]\n\n'
SentinelFrame == <<PREFIX, DONE1, DONE2, DELIM>>

\* `data: ${JSON.stringify({ error: 'Stream failed' })}\n\n`
ErrorChunk == <<PREFIX, JHEAD, T_ERROR, DELIM>>

\* `data: ${x}\n\n`
DataFrame(x) == <<PREFIX>> \o x \o <<DELIM>>

(***************************************************************************)
(* The response object res (express / http.ServerResponse).                *)
(***************************************************************************)
NoJson == [kind |-> "none", code |-> 0, model |-> JsUndefined, choices |-> <<>>]

NewRes ==
  [statusCode |-> 200, sse |-> FALSE, headersSent |-> FALSE, written |-> <<>>,
   json |-> NoJson, ended |-> FALSE, writeAfterEnd |-> FALSE, destroyed |-> FALSE,
   lateWrites |-> 0, implicitHeaders |-> FALSE, lateHeaders |-> FALSE]

\* a write that puts its bytes before the ones already written (the fault
\* the ordering property is tried against)
ResWriteFirst(r, x) ==
  IF r.ended THEN [r EXCEPT !.writeAfterEnd = TRUE]
  ELSE IF r.destroyed THEN [r EXCEPT !.lateWrites = @ + 1]
  ELSE [r EXCEPT !.written = <<x>> \o @, !.headersSent = TRUE,
                 !.implicitHeaders = @ \/ ~r.headersSent]

\* res.write(x): bytes reach the client only while the response is open; a
\* write after res.end() fails with ERR_STREAM_WRITE_AFTER_END, a write
\* after the client has left is discarded; a first write with no headers
\* sent sends the implicit ones
ResWrite(r, x) ==
  IF r.ended THEN [r EXCEPT !.writeAfterEnd = TRUE]
  ELSE IF r.destroyed THEN [r EXCEPT !.lateWrites = @ + 1]
  ELSE [r EXCEPT !.written = Append(@, x), !.headersSent = TRUE,
                 !.implicitHeaders = @ \/ ~r.headersSent]

\* res.end()
ResEnd(r) ==
  [r EXCEPT !.ended = TRUE, !.headersSent = TRUE,
            !.implicitHeaders = @ \/ ~r.headersSent]

\* res.flushHeaders() after the three res.setHeader calls
ResFlushSse(r) ==
  IF r.headersSent THEN [r EXCEPT !.lateHeaders = TRUE]
  ELSE [r EXCEPT !.sse = TRUE, !.headersSent = TRUE]

\* res.status(code).json(body); once the headers are sent, setting the
\* content type throws ERR_HTTP_HEADERS_SENT and no body goes out
ResStatusJson(r, code, body) ==
  IF r.headersSent THEN [r EXCEPT !.statusCode = code, !.lateHeaders = TRUE]
  ELSE [r EXCEPT !.statusCode = code, !.json = body, !.ended = TRUE, !.headersSent = TRUE]

(***************************************************************************)
(* Configuration toggles.                                                  *)
(***************************************************************************)
SHOW_REASONING == FALSE

(***************************************************************************)
(* The handlers of the upstream stream, streaming branch.                  *)
(***************************************************************************)
\* data.choices?.[0]?.delta
HasDelta(doc) ==
  doc.hasChoices /\ Len(doc.choices) > 0 /\ doc.choices[1].kind = "delta"

\* the identifier reasoningStarted of lines 278-279: no file declares it, so
\* it names a property of the global object, which exists once something
\* has assigned it; "undeclared", "false" or "true"
VARIABLE reasoningStarted

\* `<think>\n${reasoning}\n</think>\n\n${content}`
Think(reasoning, content) == JsStr("<think>" \o reasoning.v \o "</think>" \o content.v)

\* the transformation with the display on and the flag a declared variable
\* that starts false, shared by every stream (the fault the scoping
\* property is tried against)
TransformDeltaShared(doc, started) ==
  LET delta == doc.choices[1]
      content == IF Truthy(delta.content) THEN delta.content ELSE JsStr("")
      reasoning == delta.reasoning
  IN IF Truthy(reasoning)
       THEN [threw |-> FALSE,
             doc |-> [doc EXCEPT
                        !.choices[1].content =
                          IF started = "true" THEN reasoning
                          ELSE Think(reasoning, content)],
             started |-> IF started = "true" THEN "false" ELSE "true"]
       ELSE [threw |-> FALSE,
             doc |-> [doc EXCEPT !.choices[1].content = content],
             started |-> started]

\* the body of the `if (data.choices?.[0]?.delta)` block, run with
\* reasoningStarted as given: the chunk to write and the value
\* reasoningStarted is left with, or a ReferenceError (the read of
\* reasoningStarted throws while nothing has assigned it, and the assignment
\* of line 279 comes after the read)
TransformDelta(doc, started) ==
  LET delta == doc.choices[1]
      content == IF Truthy(delta.content) THEN delta.content ELSE JsStr("")
      reasoning == delta.reasoning
  IN IF SHOW_REASONING /\ Truthy(reasoning)
       THEN IF started = "undeclared"
              THEN [threw |-> TRUE, doc |-> doc, started |-> started]
              ELSE [threw |-> FALSE,
                    doc |-> [doc EXCEPT
                               !.choices[1].content =
                                 IF started = "true" THEN reasoning
                                 ELSE Think(reasoning, content)],
                    started |-> IF started = "true" THEN "false" ELSE "true"]
       ELSE [threw |-> FALSE,
             doc |-> [doc EXCEPT
                        !.choices[1].reasoning = IF Truthy(reasoning) THEN JsUndefined ELSE @,
                        !.choices[1].content = content],
             started |-> started]

\* response.data.on('data', (chunk) => ...), run with reasoningStarted as
\* given: what it does to res and what it leaves in reasoningStarted
DataListener(r, started, chunkStr) ==
  IF Includes(chunkStr)
    THEN [res |-> ResEnd(ResWrite(r, SentinelFrame)), started |-> started]
  ELSE IF Trim(chunkStr) # <<>> THEN
    LET p == JSONparse(chunkStr)
    IN IF ~p.ok THEN [res |-> ResWrite(r, DataFrame(chunkStr)), started |-> started]
       ELSE IF ~HasDelta(p.doc) THEN [res |-> r, started |-> started]
       ELSE LET t == TransformDelta(p.doc, started)
            IN IF t.threw
                 THEN [res |-> ResWrite(r, DataFrame(chunkStr)), started |-> t.started]
                 ELSE [res |-> ResWrite(r, DataFrame(JSONstringify(t.doc))),
                       started |-> t.started]
  ELSE [res |-> r, started |-> started]

\* response.data.on('data', (chunk) => ...): what it does to res
OnData(r, chunkStr) == DataListener(r, reasoningStarted, chunkStr).res

\* response.data.on('end', () => res.end())
OnEnd(r) == ResEnd(r)

\* the 'error' listener without its res.end()
OnErrorNoEnd(r) == ResWrite(r, ErrorChunk)

\* an 'error' listener that answers as the catch block does (the fault
\* the headers property is tried against)
OnErrorStatus(r) ==
  ResStatusJson(r, 500, [NoJson EXCEPT !.kind = "error", !.code = 500])

\* response.data.on('error', (err) => ...)
OnError(r) == ResEnd(ResWrite(r, ErrorChunk))

(***************************************************************************)
(* Request normalisation.                                                  *)
(***************************************************************************)
Variants == {"NIM", "HF", "HFA"}

\* the keys of MODEL_MAPPING
MappingKeys ==
  {"gpt-3.5-turbo", "gpt-4", "gpt-4-turbo", "gpt-4o", "claude-3-opus",
   "claude-3-sonnet", "gemini-pro"}

\* MODEL_MAPPING[model]: an own key gives its route, a name Object.prototype
\* defines gives the inherited member, anything else gives undefined
MODEL_MAPPING(variant, model) ==
  IF model.t = "string" /\ model.v \in MappingKeys THEN
    CASE variant = "HF" -> JsStr("deepseek-ai/DeepSeek-V3")
      [] variant = "HFA" -> JsStr("huihui-ai/DeepSeek-V3-abliterated")
      [] model.v = "gpt-3.5-turbo" -> JsStr("nvidia/llama-3.1-nemotron-ultra-253b-v1")
      [] model.v = "gpt-4" -> JsStr("qwen/qwen3-coder-480b-a35b-instruct")
      [] model.v = "gpt-4-turbo" -> JsStr("moonshotai/kimi-k2-instruct-0905")
      [] model.v = "gpt-4o" -> JsStr("deepseek-ai/deepseek-v3.1")
      [] model.v = "claude-3-opus" -> JsStr("openai/gpt-oss-120b")
      [] model.v = "claude-3-sonnet" -> JsStr("openai/gpt-oss-20b")
      [] OTHER -> JsStr("qwen/qwen3-next-80b-a3b-thinking")
  ELSE IF model = JsStr("constructor") THEN [t |-> "function"]
  ELSE JsUndefined

\* the upstream identifier the code falls back to
DefaultModel(variant) ==
  CASE variant = "HF" -> JsStr("deepseek-ai/DeepSeek-V3")
    [] variant = "HFA" -> JsStr("huihui-ai/DeepSeek-V3-abliterated")
    [] OTHER -> JsStr("meta/llama-3.1-8b-instruct")

\* modelLower.includes(sub), for the names of the model
StrIncludes(str, sub) ==
  \/ str = sub
  \/ str \in {"gpt-4o", "gpt-4-turbo"} /\ sub = "gpt-4"
  \/ str \in {"claude-3-opus", "claude-3-sonnet"} /\ sub = "claude"
  \/ str = "gemini-pro" /\ sub = "gemini"

\* the model selection: the identifier sent upstream, or a TypeError
SelectModel(variant, model) ==
  LET mapped == MODEL_MAPPING(variant, model)
  IN IF variant # "NIM" THEN
       [threw |-> FALSE,
        model |-> IF Truthy(mapped) THEN mapped ELSE DefaultModel(variant)]
     ELSE
       LET nimModel == IF Truthy(mapped) THEN mapped ELSE model
       IN IF Truthy(nimModel) THEN [threw |-> FALSE, model |-> nimModel]
          ELSE IF model.t # "string" THEN [threw |-> TRUE, model |-> JsUndefined]
          ELSE IF \/ StrIncludes(model.v, "gpt-4")
                  \/ StrIncludes(model.v, "claude-opus")
                  \/ StrIncludes(model.v, "405b")
            THEN [threw |-> FALSE, model |-> JsStr("meta/llama-3.1-405b-instruct")]
          ELSE IF \/ StrIncludes(model.v, "claude")
                  \/ StrIncludes(model.v, "gemini")
                  \/ StrIncludes(model.v, "70b")
            THEN [threw |-> FALSE, model |-> JsStr("meta/llama-3.1-70b-instruct")]
          ELSE [threw |-> FALSE, model |-> DefaultModel(variant)]

NimDefaultTokens == 500
NimCeiling == 9024
HfDefaultTokens == 800
HfCeiling == 800

DefaultTokens(variant) == IF variant = "NIM" THEN NimDefaultTokens ELSE HfDefaultTokens
Ceiling(variant) == IF variant = "NIM" THEN NimCeiling ELSE HfCeiling

Min(a, b) == IF a < b THEN a ELSE b

\* max_tokens === 0 || !max_tokens ? default : Math.min(max_tokens, ceiling)
EffectiveMaxTokens(variant, max_tokens) ==
  IF max_tokens = JsNum(0) \/ ~Truthy(max_tokens)
    THEN DefaultTokens(variant)
    ELSE Min(max_tokens.v, Ceiling(variant))

\* !messages || !Array.isArray(messages)
InvalidMessages(messages) == ~Truthy(messages) \/ messages.t # "array"

\* building the upstream prompt from messages throws a TypeError:
\*   HF   [{...}, ...messages] needs an iterable, and m.role.toUpperCase()
\*        needs every element to have a role (a string's characters have none)
\*   HFA  messages.map needs an array
PromptThrows(variant, messages) ==
  CASE variant = "HF" ->
         \/ messages.t \notin {"array", "string"}
         \/ messages.t = "string" /\ messages.v # ""
    [] variant = "HFA" -> messages.t # "array"
    [] OTHER -> FALSE

\* the body of an error response: { error: { message, type, code } }
ErrorBody(code) == [NoJson EXCEPT !.kind = "error", !.code = code]

\* { error: 'Invalid messages' }
InvalidBody == [NoJson EXCEPT !.kind = "invalid", !.code = 400]

\* catch (error): res.status(error.response?.status || 500).json({...});
\* status 0 stands for an error that carries no response
Catch(r, status) ==
  LET code == IF status # 0 THEN status ELSE 500
  IN ResStatusJson(r, code, ErrorBody(code))

(***************************************************************************)
(* Inputs: the request bodies a client sends, the bodies the upstream      *)
(* answers with.                                                           *)
(***************************************************************************)
ModelNames ==
  {JsUndefined, JsStr("gpt-4o"), JsStr("my-model"), JsStr(""), JsStr("constructor")}

MessagesValues ==
  {JsUndefined, JsNull, JsStr("hi"), JsStr(""), JsObject, JsArray(0), JsArray(1)}

MaxTokensValues ==
  {JsUndefined, JsNull} \cup
  {JsNum(n) : n \in {-1, 0, 1, NimDefaultTokens, HfCeiling, HfCeiling + 1,
                     NimCeiling, NimCeiling + 1}}

\* req.body; stream absent and stream false are the same falsy value here
Bodies ==
  [model : ModelNames, messages : MessagesValues, max_tokens : MaxTokensValues,
   stream : BOOLEAN]

NoBody ==
  [model |-> JsUndefined, messages |-> JsUndefined, max_tokens |-> JsUndefined,
   stream |-> FALSE]

\* one upstream event frame: data: <payload>\n\n
Frame(payload) == <<PREFIX>> \o payload \o <<DELIM>>

\* the event frames an upstream stream is made of
Frames ==
  {Frame(<<JHEAD, tok>>) : tok \in {T_HE, T_REASON, T_FINISH, T_NOCHOICES, T_DONETEXT}}
  \cup {Frame(<<NOTJSON>>), Frame(<<DONE1, DONE2>>)}

\* the sequences of at most n frames
RECURSIVE FrameSeqs(_)
FrameSeqs(n) ==
  IF n = 0 THEN {<<>>}
  ELSE LET shorter == FrameSeqs(n - 1)
       IN shorter \cup {Append(fs, f) : fs \in shorter, f \in Frames}

\* the bodies of a streamed upstream answer, as byte strings
StreamBodies == {Flatten(fs) : fs \in FrameSeqs(MaxFrames)}

\* the bodies of a buffered upstream answer (NIM), as byte strings
BufferedBodies ==
  {<<JHEAD, T_MSG>>, <<JHEAD, T_MSG2>>, <<JHEAD, T_NOCHOICES>>, <<NOTJSON>>, <<>>}

\* the text a Hugging Face generation is made of; DELIM is white space
W_HELLO == "Hello"
\* the content of the last message of the prompt (HF: of fullMessages)
LASTCONTENT == "hi"

HfTexts == {<<W_HELLO>>, <<DELIM, W_HELLO, DELIM>>, <<LASTCONTENT, W_HELLO>>, <<>>}

\* response.data of the Hugging Face answers, which axios has decoded:
\*   "generations"  [{ generated_text }, ...]
\*   "completion"   { choices: [{ message: { content } }, ...] }
\*   "error"        { error: '...' }
HfAnswers ==
  {[shape |-> "generations", texts |-> <<t>>] : t \in HfTexts}
  \cup {[shape |-> "generations", texts |-> <<<<W_HELLO>>, <<W_HELLO>>>>],
        [shape |-> "generations", texts |-> <<>>],
        [shape |-> "completion", texts |-> <<<<W_HELLO>>>>],
        [shape |-> "error", texts |-> <<>>]}

NoAnswer == [shape |-> "none", texts |-> <<>>]

\* the statuses axios rejects with; 0: no response (unreachable, timeout)
RejectStatuses == {0, 401, 503}

(***************************************************************************)
(* State.                                                                  *)
(***************************************************************************)
VARIABLES
  variant,        \* the deployed server
  pc,             \* where the handler of the request is
  body,           \* req.body; once the upstream has answered, only the
                  \* fields the handlers still read (stream and model)
  inflight,       \* the upstream request axios has in flight
  upstreamCalls,  \* the number of upstream calls issued
  res,            \* the response object
  pending,        \* bytes of the upstream body not yet delivered
  delivered,      \* the fragments delivered so far, in order
  upstreamState,  \* "none", "open", "ended", "errored"
  fullData,       \* the buffer of the non-streaming branch
  crashed,        \* an exception no handler caught ended the process
  readsAfterClose, \* 'data' events handled after the client had left
  hfData,         \* response.data of the Hugging Face answer
  stream2         \* a second request, streamed at the same time: its
                  \* position, response, and upstream body

vars ==
  <<variant, pc, body, inflight, upstreamCalls, res, pending, delivered,
    upstreamState, fullData, crashed, readsAfterClose, hfData, stream2,
    reasoningStarted>>

\* the second request before it arrives
NoStream == [pc |-> "idle", res |-> NewRes, pending |-> <<>>, delivered |-> <<>>]

NoRequest == [model |-> JsUndefined, max_tokens |-> 0, stream |-> FALSE]

Init ==
  /\ variant \in Variants
  /\ pc = "idle"
  /\ body = NoBody
  /\ inflight = NoRequest
  /\ upstreamCalls = 0
  /\ res = NewRes
  /\ pending = <<>>
  /\ delivered = <<>>
  /\ upstreamState = "none"
  /\ fullData = <<>>
  /\ crashed = FALSE
  /\ readsAfterClose = 0
  /\ hfData = NoAnswer
  /\ stream2 = NoStream
  /\ reasoningStarted = "undeclared"

(***************************************************************************)
(* app.post('/v1/chat/completions'): from the request to the upstream      *)
(* call.                                                                   *)
(***************************************************************************)
\* the handler up to `await axios.post(...)`
PostOf(requests) ==
  /\ pc = "idle"
  /\ \E b \in requests :
       LET sel == SelectModel(variant, b.model)
       IN /\ body' = b
          /\ IF variant = "NIM" /\ InvalidMessages(b.messages) THEN
               /\ res' = ResStatusJson(res, 400, InvalidBody)
               /\ pc' = "finished"
               /\ UNCHANGED <<inflight, upstreamCalls>>
             ELSE IF sel.threw \/ PromptThrows(variant, b.messages) THEN
               /\ res' = Catch(res, 0)
               /\ pc' = "finished"
               /\ UNCHANGED <<inflight, upstreamCalls>>
             ELSE
               /\ inflight' =
                    [model |-> sel.model,
                     max_tokens |-> EffectiveMaxTokens(variant, b.max_tokens),
                     stream |-> variant = "NIM" /\ b.stream]
               /\ upstreamCalls' = upstreamCalls + 1
               /\ pc' = "awaiting"
               /\ res' = res
  /\ UNCHANGED <<variant, stream2, reasoningStarted, readsAfterClose, hfData,
                 pending, delivered, upstreamState, fullData, crashed>>

Post == PostOf(Bodies)

\* axios.post rejects: no answer, a timeout, or a status outside 2xx
AxiosReject ==
  /\ pc = "awaiting"
  /\ \E status \in RejectStatuses : res' = Catch(res, status)
  /\ pc' = "finished"
  /\ inflight' = NoRequest
  /\ UNCHANGED <<variant, stream2, reasoningStarted, readsAfterClose, hfData,
                 body, upstreamCalls, pending, delivered, upstreamState,
                 fullData, crashed>>

\* axios.post resolves (NIM): the branch on `stream` up to the registration
\* of the stream handlers
AxiosResolveNimOf(streamBodies, bufferedBodies) ==
  /\ pc = "awaiting"
  /\ variant = "NIM"
  /\ inflight' = NoRequest
  /\ body' = [NoBody EXCEPT !.stream = body.stream,
                            !.model = IF body.stream THEN JsUndefined ELSE body.model]
  /\ upstreamState' = "open"
  /\ IF body.stream
       THEN /\ res' = ResFlushSse(res)
            /\ pc' = "streaming"
            /\ pending' \in streamBodies
       ELSE /\ res' = res
            /\ pc' = "buffering"
            /\ pending' \in bufferedBodies
  /\ UNCHANGED <<variant, stream2, reasoningStarted, readsAfterClose, hfData,
                 upstreamCalls, delivered, fullData, crashed>>

AxiosResolveNim == AxiosResolveNimOf(StreamBodies, BufferedBodies)

RECURSIVE Join(_)
\* the string a text stands for
Join(text) == IF text = <<>> THEN "" ELSE Head(text) \o Join(Tail(text))

RECURSIVE Replace(_, _)
\* text.replace(pattern, ''): the first occurrence of the pattern is dropped
Replace(text, pattern) ==
  IF text = <<>> THEN <<>>
  ELSE IF Head(text) = pattern THEN Tail(text)
  ELSE <<Head(text)>> \o Replace(Tail(text), pattern)

\* response.data[0].generated_text[.replace(<last content>, '')].trim();
\* response.data[0] is undefined unless response.data is a non-empty array
GeneratedText(v, answer) ==
  IF answer.shape # "generations" \/ answer.texts = <<>>
    THEN [threw |-> TRUE, text |-> <<>>]
    ELSE [threw |-> FALSE,
          text |-> IF v = "HF" THEN Trim(Replace(answer.texts[1], LASTCONTENT))
                   ELSE Trim(answer.texts[1])]

\* the completion the Hugging Face handlers answer with
HfCompletion(model, generatedText) ==
  [kind |-> "completion", code |-> 200, model |-> model,
   choices |-> <<[index |-> 0, content |-> JsStr(Join(generatedText)),
                  finish |-> JsStr("stop")]>>]

\* axios.post resolves (HF, HFA): response.data[0].generated_text is read
\* and the completion is sent, or the read throws and the catch answers
AxiosResolveHf ==
  /\ pc = "awaiting"
  /\ variant # "NIM"
  /\ \E answer \in HfAnswers :
       LET g == GeneratedText(variant, answer)
       IN /\ hfData' = answer
          /\ res' = IF g.threw THEN Catch(res, 0)
                    ELSE ResStatusJson(res, 200, HfCompletion(body.model, g.text))
  /\ pc' = "finished"
  /\ inflight' = NoRequest
  /\ UNCHANGED <<variant, stream2, reasoningStarted, readsAfterClose, body,
                 upstreamCalls, pending, delivered, upstreamState, fullData,
                 crashed>>

(***************************************************************************)
(* The upstream stream's events, streaming branch.                         *)
(***************************************************************************)
\* a 'data' event: the transport delivers the next n bytes as one fragment
StreamData ==
  /\ pc = "streaming"
  /\ \E n \in 1..Len(pending) :
       LET chunk == SubSeq(pending, 1, n)
       IN /\ res' = OnData(res, chunk)
          /\ delivered' = Append(delivered, chunk)
          /\ pending' = SubSeq(pending, n + 1, Len(pending))
  /\ readsAfterClose' = IF res.destroyed THEN readsAfterClose + 1 ELSE readsAfterClose
  /\ reasoningStarted' =
       DataListener(res, reasoningStarted, delivered'[Len(delivered')]).started
  /\ UNCHANGED <<variant, stream2, hfData, pc, body, inflight, upstreamCalls,
                 upstreamState, fullData, crashed>>

\* the 'end' event: the upstream body is complete
StreamEnd ==
  /\ pc = "streaming"
  /\ pending = <<>>
  /\ res' = OnEnd(res)
  /\ upstreamState' = "ended"
  /\ pc' = "finished"
  /\ UNCHANGED <<variant, stream2, reasoningStarted, readsAfterClose, hfData,
                 body, inflight, upstreamCalls, pending, delivered, fullData,
                 crashed>>

\* an 'error' event: the transport fails; what was not delivered is lost
StreamError ==
  /\ pc = "streaming"
  /\ res' = OnError(res)
  /\ upstreamState' = "errored"
  /\ pending' = <<>>
  /\ pc' = "finished"
  /\ UNCHANGED <<variant, stream2, reasoningStarted, readsAfterClose, hfData,
                 body, inflight, upstreamCalls, delivered, fullData, crashed>>

(***************************************************************************)
(* The upstream stream's events, non-streaming branch.                     *)
(***************************************************************************)
\* the choices of the assembled response
AssembleChoices(choices) ==
  [i \in 1..Len(choices) |->
     [index |-> i - 1,
      content |->
        IF SHOW_REASONING /\ Truthy(choices[i].reasoning)
          THEN JsStr("<think>")
          ELSE IF Truthy(choices[i].content) THEN choices[i].content ELSE JsStr(""),
      finish |-> IF choices[i].finish THEN JsStr("stop") ELSE JsUndefined]]

\* the 'end' listener finishes normally: the body parses, it has choices and
\* every choice has a message
AssembleOk(text) ==
  LET p == JSONparse(text)
  IN /\ p.ok
     /\ p.doc.hasChoices
     /\ \A i \in 1..Len(p.doc.choices) : p.doc.choices[i].kind = "message"

\* response.data.on('data', (chunk) => fullData += chunk.toString())
BufferData ==
  /\ pc = "buffering"
  /\ \E n \in 1..Len(pending) :
       LET chunk == SubSeq(pending, 1, n)
       IN /\ fullData' = fullData \o chunk
          /\ delivered' = Append(delivered, chunk)
          /\ pending' = SubSeq(pending, n + 1, Len(pending))
  /\ UNCHANGED <<variant, stream2, reasoningStarted, readsAfterClose, hfData,
                 pc, body, inflight, upstreamCalls, res, upstreamState,
                 crashed>>

\* response.data.on('end', ...): the listener runs outside the try block, so
\* what it throws is caught by nobody
BufferEnd ==
  /\ pc = "buffering"
  /\ pending = <<>>
  /\ upstreamState' = "ended"
  /\ pc' = "finished"
  /\ IF AssembleOk(fullData)
       THEN /\ res' = ResStatusJson(res, 200,
                        [kind |-> "completion", code |-> 200, model |-> body.model,
                         choices |-> AssembleChoices(JSONparse(fullData).doc.choices)])
            /\ crashed' = crashed
       ELSE /\ res' = res
            /\ crashed' = TRUE
  /\ UNCHANGED <<variant, stream2, reasoningStarted, readsAfterClose, hfData,
                 body, inflight, upstreamCalls, pending, delivered, fullData>>

\* an 'error' event with no 'error' listener registered: either the event
\* is not raised at all, or it is raised and ends the process
BufferError ==
  /\ pc = "buffering"
  /\ upstreamState' = "errored"
  /\ pending' = <<>>
  /\ pc' = "finished"
  /\ crashed' \in BOOLEAN
  /\ UNCHANGED <<variant, stream2, reasoningStarted, readsAfterClose, hfData,
                 body, inflight, upstreamCalls, res, delivered, fullData>>

Next ==
  \/ Post
  \/ AxiosReject
  \/ AxiosResolveNim
  \/ AxiosResolveHf
  \/ StreamData
  \/ StreamEnd
  \/ StreamError
  \/ BufferData
  \/ BufferEnd
  \/ BufferError

Spec == Init /\ [][Next]_vars

(***************************************************************************)
(* Two requests streamed at the same time (NIM).  Node runs one listener   *)
(* at a time, so the events of the two streams interleave in any order.    *)
(***************************************************************************)
\* the largest number of event frames of the first stream's body
MaxConcurrentFrames == 1

ConcurrentFrames == {Frame(<<JHEAD, tok>>) : tok \in {T_HE, T_REASON}}

RECURSIVE ConcurrentFrameSeqs(_)
ConcurrentFrameSeqs(n) ==
  IF n = 0 THEN {<<>>}
  ELSE LET shorter == ConcurrentFrameSeqs(n - 1)
       IN shorter \cup {Append(fs, f) : fs \in shorter, f \in ConcurrentFrames}

\* the upstream bodies of the first stream
ConcurrentBodies == {Flatten(fs) : fs \in ConcurrentFrameSeqs(MaxConcurrentFrames)}

\* the requests of the first stream: stream: true, messages an array
ConcurrentRequests ==
  {b \in Bodies : /\ b.stream
                  /\ b.messages = JsArray(1)
                  /\ b.model = JsStr("gpt-4o")
                  /\ b.max_tokens = JsUndefined}

PostStreaming == PostOf(ConcurrentRequests)

AxiosResolveStreaming == AxiosResolveNimOf(ConcurrentBodies, {})

\* the handler of the second request, from its arrival to the registration
\* of the stream listeners (stream: true, valid messages, upstream 200); its
\* upstream body is one frame
SecondStreamOpens ==
  /\ variant = "NIM"
  /\ stream2.pc = "idle"
  /\ \E f \in ConcurrentFrames :
       stream2' = [pc |-> "streaming", res |-> ResFlushSse(NewRes), pending |-> f,
                   delivered |-> <<>>]
  /\ UNCHANGED <<variant, reasoningStarted, readsAfterClose, hfData, pc, body,
                 inflight, upstreamCalls, res, pending, delivered,
                 upstreamState, fullData, crashed>>

\* a 'data' event of the second stream
SecondStreamData ==
  /\ stream2.pc = "streaming"
  /\ \E n \in 1..Len(stream2.pending) :
       LET chunk == SubSeq(stream2.pending, 1, n)
       IN /\ stream2' = [stream2 EXCEPT
                           !.res = OnData(@, chunk),
                           !.delivered = Append(@, chunk),
                           !.pending = SubSeq(@, n + 1, Len(@))]
          /\ reasoningStarted' =
               DataListener(stream2.res, reasoningStarted, chunk).started
  /\ UNCHANGED <<variant, readsAfterClose, hfData, pc, body, inflight,
                 upstreamCalls, res, pending, delivered, upstreamState,
                 fullData, crashed>>

\* the 'end' event of the second stream
SecondStreamEnd ==
  /\ stream2.pc = "streaming"
  /\ stream2.pending = <<>>
  /\ stream2' = [stream2 EXCEPT !.res = OnEnd(@), !.pc = "finished"]
  /\ UNCHANGED <<variant, reasoningStarted, readsAfterClose, hfData, pc, body,
                 inflight, upstreamCalls, res, pending, delivered,
                 upstreamState, fullData, crashed>>

\* the 'error' event of the second stream
SecondStreamError ==
  /\ stream2.pc = "streaming"
  /\ stream2' = [stream2 EXCEPT !.res = OnError(@), !.pending = <<>>, !.pc = "finished"]
  /\ UNCHANGED <<variant, reasoningStarted, readsAfterClose, hfData, pc, body,
                 inflight, upstreamCalls, res, pending, delivered,
                 upstreamState, fullData, crashed>>

NextTwoStreams ==
  \/ PostStreaming
  \/ AxiosResolveStreaming
  \/ StreamData
  \/ StreamEnd
  \/ StreamError
  \/ SecondStreamOpens
  \/ SecondStreamData
  \/ SecondStreamEnd
  \/ SecondStreamError

SpecTwoStreams == Init /\ [][NextTwoStreams]_vars

(***************************************************************************)
(* The client leaving in the middle of a streamed response.                *)
(***************************************************************************)
\* the client closes its connection; the handler registers no 'close'
\* listener on req or res, so nothing of the handler runs
ClientDisconnect ==
  /\ pc = "streaming"
  /\ ~res.destroyed
  /\ ~res.ended
  /\ res' = [res EXCEPT !.destroyed = TRUE]
  /\ UNCHANGED <<variant, stream2, reasoningStarted, readsAfterClose, hfData,
                 pc, body, inflight, upstreamCalls, pending, delivered,
                 upstreamState, fullData, crashed>>

NextDisconnect == Next \/ ClientDisconnect

SpecDisconnect == Init /\ [][NextDisconnect]_vars

(***************************************************************************)
(* Helpers of the properties.                                              *)
(***************************************************************************)
\* the number of elements of a sequence equal to x
Count(seq, x) == Cardinality({i \in 1..Len(seq) : seq[i] = x})

\* the handler took the streaming branch
Streaming == variant = "NIM" /\ upstreamState # "none" /\ body.stream

\* the streaming branch has seen the upstream's last event
StreamFinished == Streaming /\ pc = "finished"

\* the request was received and `body` still is the whole req.body
RequestSeen == pc # "idle" /\ upstreamState = "none"

\* the event frames of a byte string: each ends with its delimiter
RECURSIVE SplitFrames(_, _)
SplitFrames(bytes, frame) ==
  IF bytes = <<>> THEN (IF frame = <<>> THEN <<>> ELSE <<frame>>)
  ELSE IF Head(bytes) = DELIM
    THEN <<Append(frame, DELIM)>> \o SplitFrames(Tail(bytes), <<>>)
    ELSE SplitFrames(Tail(bytes), Append(frame, Head(bytes)))

\* the frames the upstream has emitted so far
UpstreamFrames == SplitFrames(Flatten(delivered), <<>>)

\* the payload of a frame data: <payload>\n\n
Payload(frame) == SubSeq(frame, 2, Len(frame) - 1)

IsSentinel(frame) == Payload(frame) = <<DONE1, DONE2>>

\* a frame data: <json> whose JSON holds a delta
IsDeltaFrame(frame) ==
  /\ Len(frame) = 4
  /\ frame[1] = PREFIX
  /\ JSONparse(Payload(frame)).ok
  /\ HasDelta(JSONparse(Payload(frame)).doc)

\* the outbound chunk of a frame: data: <transformed json>\n\n
ChunkOf(frame) ==
  DataFrame(JSONstringify(
    TransformDelta(JSONparse(Payload(frame)).doc, reasoningStarted).doc))

\* s is a non-empty proper prefix of t
ProperPrefix(s, t) == 0 < Len(s) /\ Len(s) < Len(t) /\ SubSeq(t, 1, Len(s)) = s

(***************************************************************************)
(* Properties.                                                             *)
(***************************************************************************)
\* C1: once a streamed response is over, whatever data, end and error events
\* the upstream raised, the client was sent the frame data: [DONE] exactly
\* once, and nothing after it.
C1_SentinelExactlyOnce ==
  StreamFinished =>
    /\ Count(res.written, SentinelFrame) = 1
    /\ res.written[Len(res.written)] = SentinelFrame

\* C2: the chunks written to the client do not depend on how the upstream
\* bytes were cut into fragments: they are those of the delivery of all the
\* bytes in one fragment.
C2_FragmentationTransparent ==
  (StreamFinished /\ upstreamState = "ended" /\ delivered # <<>>) =>
    res.written = OnData(ResFlushSse(NewRes), Flatten(delivered)).written

\* C3: a fragment that holds only the beginning of a frame writes nothing
\* to the client, and a frame that came in two fragments gives exactly one
\* chunk.
C3_NoPartialFrame ==
  Streaming =>
    /\ (Len(delivered) = 1 /\ \E f \in Frames : ProperPrefix(delivered[1], f))
         => res.written = <<>>
    /\ (/\ Len(delivered) = 2
        /\ Len(UpstreamFrames) = 1
        /\ UpstreamFrames[1] \in Frames
        /\ IsDeltaFrame(UpstreamFrames[1]) \/ IsSentinel(UpstreamFrames[1]))
         => Len(res.written) = 1

\* C4: when the upstream emitted N frames data: <json> and then
\* data: [DONE], the client was sent the N transformed frames in order, then
\* data: [DONE], and the response was ended.
C4_FramesThenDone ==
  LET fs == UpstreamFrames
      n == Len(fs) - 1
  IN (/\ StreamFinished
      /\ upstreamState = "ended"
      /\ Len(fs) >= 1
      /\ IsSentinel(fs[Len(fs)])
      /\ \A i \in 1..n : IsDeltaFrame(fs[i]))
       => /\ res.written = [i \in 1..(n + 1) |->
                              IF i <= n THEN ChunkOf(fs[i]) ELSE SentinelFrame]
          /\ res.ended

\* C5: when the handlers of a request have nothing more to run, in the
\* streaming branch or not, after an error or not, the response is ended.
C5_AlwaysTerminated == pc = "finished" => res.ended

\* C6: after an error of the upstream stream that came while the streamed
\* response was open, the response is ended and its last chunk is the one
\* error chunk written; the response is ended in any case.
C6_OneErrorChunk ==
  (Streaming /\ upstreamState = "errored") =>
    /\ res.ended
    /\ ~res.writeAfterEnd =>
         /\ res.written # <<>>
         /\ res.written[Len(res.written)] = ErrorChunk
         /\ Count(res.written, ErrorChunk) = 1

\* C6 witness: the error came after a chunk had been written
C6_Witness ==
  /\ Streaming
  /\ upstreamState = "errored"
  /\ ~res.writeAfterEnd
  /\ Len(res.written) >= 2
  /\ res.written[Len(res.written)] = ErrorChunk

\* C7: a streamed response that ended because the upstream body ended has
\* data: [DONE] as the last frame written.
C7_TerminalSignal ==
  (StreamFinished /\ upstreamState = "ended") =>
    /\ res.written # <<>>
    /\ res.written[Len(res.written)] = SentinelFrame

\* C8: a request whose messages is missing or is not a list is answered
\* with status 400 and no upstream call is issued.
C8_InvalidMessages400 ==
  (RequestSeen /\ body.messages.t # "array") =>
    /\ pc = "finished"
    /\ res.ended
    /\ res.statusCode = 400
    /\ upstreamCalls = 0

\* C9: the max_tokens of an upstream call is at least 1 and at most the
\* ceiling.
C9_MaxTokensInRange ==
  pc = "awaiting" =>
    /\ inflight.max_tokens >= 1
    /\ inflight.max_tokens <= Ceiling(variant)

\* C10: a request with a well-formed conversation whose model name is not
\* a key of the route table (or is absent) is not refused, and its upstream
\* call names the default upstream identifier.
C10_UnknownModelDefault ==
  (/\ RequestSeen
   /\ body.messages.t = "array"
   /\ ~(body.model.t = "string" /\ body.model.v \in MappingKeys)) =>
    /\ upstreamCalls = 1
    /\ pc = "awaiting" => inflight.model = DefaultModel(variant)

\* C11: once the client has left in the middle of a stream, the 'data'
\* listener writes nothing more, and after at most one more 'data' event
\* the upstream stream is no longer open.
C11_AbortOnDisconnect ==
  res.destroyed =>
    /\ upstreamState # "errored" => res.lateWrites = 0
    /\ readsAfterClose >= 1 => upstreamState # "open"

\* the request has been answered, or abandoned, without streaming
Buffered == pc = "finished" /\ ~body.stream /\ ~Streaming

\* the upstream body is well formed: it parses and holds the answers
WellFormedUpstream ==
  IF variant = "NIM"
    THEN upstreamState = "ended" /\ AssembleOk(fullData)
    ELSE hfData.shape \in {"generations", "completion"} /\ hfData.texts # <<>>

\* the contents of the upstream body's answers, in order
UpstreamContents ==
  IF variant = "NIM"
    THEN LET cs == JSONparse(fullData).doc.choices
         IN [i \in 1..Len(cs) |-> cs[i].content]
    ELSE [i \in 1..Len(hfData.texts) |-> JsStr(Join(hfData.texts[i]))]

\* C12: a non-streaming request whose upstream body is well formed is
\* answered with as many choices as the upstream body has, in the same
\* order, each with the upstream content, the empty string standing for an
\* absent or null content.
C12_ChoicesPreserved ==
  (Buffered /\ WellFormedUpstream) =>
    /\ res.json.kind = "completion"
    /\ Len(res.json.choices) = Len(UpstreamContents)
    /\ \A i \in 1..Len(res.json.choices) :
         /\ res.json.choices[i].content # JsNull
         /\ res.json.choices[i].content =
              IF Truthy(UpstreamContents[i]) THEN UpstreamContents[i] ELSE JsStr("")

\* what the 'data' listener does to a fresh streamed response for one fragment
ChunksOfFragment(chunkStr) == OnData(ResFlushSse(NewRes), chunkStr)

\* C13: every 'data' event appends the chunks of its fragment after the
\* chunks of all earlier fragments, and nothing else changes what has been
\* written but the error chunk of a failed stream, which also goes last: the
\* chunks reach the client in the order their fragments were received.
C13_OrderPreserved ==
  [][Streaming' =>
       IF delivered' # delivered
         THEN res'.written =
                res.written \o
                  (IF res.ended THEN <<>>
                   ELSE ChunksOfFragment(delivered'[Len(delivered')]).written)
         ELSE res'.written \in {res.written, Append(res.written, ErrorChunk)}]_vars

\* C13 witness: two different chunks have been written for two fragments
C13_Witness ==
  /\ Streaming
  /\ Len(delivered) >= 2
  /\ Len(res.written) >= 2
  /\ res.written[1] # res.written[2]
  /\ ChunksOfFragment(delivered[1]).written = <<res.written[1]>>

\* the bytes hold a reasoning_content field
HoldsReasoning(s) == \E j \in 1..Len(s) : s[j] = T_REASON

\* C14: with the reasoning display disabled, no chunk written to the client
\* of a streamed response holds reasoning content.
C14_ReasoningStripped ==
  (Streaming /\ ~SHOW_REASONING) =>
    \A i \in 1..Len(res.written) : ~HoldsReasoning(res.written[i])

\* the buffered upstream body has arrived and is not of the expected structure
MalformedUpstreamBody ==
  IF variant = "NIM"
    THEN upstreamState = "ended" /\ ~AssembleOk(fullData)
    ELSE hfData # NoAnswer /\ GeneratedText(variant, hfData).threw

\* C15: when the buffered upstream body is not of the expected structure,
\* the client gets an error response and the process keeps running.
C15_MalformedBodyHandled ==
  (Buffered /\ MalformedUpstreamBody) =>
    /\ ~crashed
    /\ res.ended
    /\ res.json.kind = "error"
    /\ res.statusCode >= 400

\* the fragments the 'data' listener decodes: one JSON text each
DecodedFragments == {<<JHEAD, tok>> : tok \in {T_HE, T_REASON}}

\* the chunks a stream gets for one fragment while reasoningStarted is as given
ChunksWith(started, chunkStr) ==
  DataListener(ResFlushSse(NewRes), started, chunkStr).res.written

\* C16: with two requests streamed at the same time, every stream finds the
\* reasoning state in its initial value when it opens, and a 'data' event of
\* one stream never changes the chunk the other stream gets for a fragment.
C16_ReasoningStatePerStream ==
  [][/\ (pc' = "streaming" /\ pc # "streaming") => reasoningStarted' = "undeclared"
     /\ (stream2.pc' = "streaming" /\ stream2.pc # "streaming") =>
          reasoningStarted' = "undeclared"
     /\ (stream2.delivered' # stream2.delivered /\ pc = "streaming") =>
          \A f \in DecodedFragments :
            ChunksWith(reasoningStarted', f) = ChunksWith(reasoningStarted, f)
     /\ (delivered' # delivered /\ stream2.pc = "streaming") =>
          \A f \in DecodedFragments :
            ChunksWith(reasoningStarted', f) = ChunksWith(reasoningStarted, f)]_vars

\* C16 witness: both streams are open and each has had a fragment with
\* reasoning content decoded and its chunk written
C16_Witness ==
  /\ pc = "streaming"
  /\ stream2.pc = "streaming"
  /\ \E i \in 1..Len(delivered) : delivered[i] = <<JHEAD, T_REASON>>
  /\ \E i \in 1..Len(stream2.delivered) : stream2.delivered[i] = <<JHEAD, T_REASON>>
  /\ \E i \in 1..Len(res.written) : res.written[i] = DataFrame(<<JHEAD, T_EMPTY>>)
  /\ \E i \in 1..Len(stream2.res.written) :
       stream2.res.written[i] = DataFrame(<<JHEAD, T_EMPTY>>)

\* C17: status and headers are set before the first byte of the body is
\* written, and nothing sets a status or a header once headers have been
\* sent.
C17_HeadersBeforeBody ==
  /\ ~res.lateHeaders
  /\ ~res.implicitHeaders
  /\ (res.written # <<>> \/ res.json # NoJson) => res.headersSent
  /\ res.written # <<>> => res.sse /\ res.statusCode = 200

\* C17 witness: the stream failed after its headers had been flushed and a
\* chunk written, and the error path wrote its chunk without setting a status
C17_Witness ==
  /\ StreamFinished
  /\ upstreamState = "errored"
  /\ res.sse
  /\ Len(res.written) >= 2
  /\ res.written[1] # ErrorChunk
  /\ res.written[Len(res.written)] = ErrorChunk
  /\ res.statusCode = 200

\* the bytes received so far hold a frame whose payload is the sentinel
SentinelReceived ==
  LET bytes == Flatten(delivered)
  IN \E i \in 1..(Len(bytes) - 2) :
       bytes[i] = PREFIX /\ bytes[i + 1] = DONE1 /\ bytes[i + 2] = DONE2

\* C18: only a frame whose payload is the sentinel ends a streamed response
\* and makes the listener write data: [DONE]; a content frame whose text
\* holds the characters [DONE] does neither.
C18_OnlySentinelTerminates ==
  (Streaming /\ ~SentinelReceived) =>
    /\ upstreamState = "open" => ~res.ended
    /\ Count(res.written, SentinelFrame) = 0

\* the frames of the first fragment, when it is made of complete frames only
FirstFragmentFrames ==
  IF delivered # <<>> /\ delivered[1][Len(delivered[1])] = DELIM
    THEN SplitFrames(delivered[1], <<>>)
    ELSE <<>>

\* C19: a fragment made of several complete frames, content frames with or
\* without the sentinel after them, gives the chunk of every one of them, in
\* order, the content chunks before data: [DONE].
C19_EveryFrameOfFragment ==
  LET fs == FirstFragmentFrames
  IN (/\ Streaming
      /\ Len(delivered) = 1
      /\ upstreamState # "errored"
      /\ Len(fs) >= 2
      /\ \A i \in 1..Len(fs) :
           /\ IsDeltaFrame(fs[i]) \/ (i = Len(fs) /\ IsSentinel(fs[i]))
           /\ \A j \in 1..Len(fs[i]) : ~HoldsDone(fs[i][j]))
       => res.written = [i \in 1..Len(fs) |->
                           IF IsSentinel(fs[i]) THEN SentinelFrame ELSE ChunkOf(fs[i])]

\* a frame the listener has nothing to transform in: its payload does not
\* decode, or decodes to something without choices[0].delta
Untransformable(frame) ==
  /\ frame \in Frames
  /\ ~IsSentinel(frame)
  /\ ~IsDeltaFrame(frame)

\* C20: a frame that cannot be transformed is forwarded as it came, as
\* exactly one data frame, whether its payload fails to decode or decodes
\* without a choices[0].delta, and however it was delivered.
C20_OneFallbackPolicy ==
  LET fs == UpstreamFrames
  IN (/\ StreamFinished
      /\ upstreamState = "ended"
      /\ Len(fs) = 1
      /\ Untransformable(fs[1]))
       => \/ res.written = <<fs[1]>>
          \/ res.written = <<DataFrame(fs[1])>>

====
